---- MODULE Spec2Model ----
(***************************************************************************)
(* Ticket Booth: the background activity queue as used by the application  *)
(* (src/main.py) and by the main view (src/views/main_view.py), and the    *)
(* periodic content-update check of the main view.                         *)
(*                                                                         *)
(* Contexts: the GTK main loop ("ui") runs every callback of the           *)
(* application and of the main view; each enqueued activity gets a worker  *)
(* thread ("worker") that runs the activity's task function.               *)
(*                                                                         *)
(* src/background_queue.py is not among the source files: the definitions  *)
(* of BackgroundActivity and BackgroundQueue below follow the design       *)
(* description (sections 3 to 5) and the way the callers use them.         *)
(***************************************************************************)
EXTENDS Integers, Sequences, FiniteSets, TLC

\* ---------------------------------------------------------------- bounds
\* Resolution of the clock: ticks per minute (datetime.now() is finer than
\* the minute that '%Y-%m-%d %H:%M' keeps; with three ticks a time can lie
\* more than one tick after the minute it is stored as).
MinuteTicks == 3
\* Activities the queue holds in the queue specification.
MaxQueue == 2
\* Activities the queue holds in the update-check specification.
MaxUpdateQueue == 5
\* Clock advances in one behaviour.
MaxTicks == 4

\* Series and movies on the notification list in the library specification.
MaxSeries == 1
MaxMovies == 1
\* Runs of _update_notification_list in one behaviour.
MaxRuns == 3

HourTicks == 60 * MinuteTicks
DayTicks == 24 * HourTicks

\* ------------------------------------------------------ program constants
NotificationHours == 12
DayFreqDays == 1
WeekFreqDays == 7
MonthFreqDays == 30

SoonSeriesDays == 7
EpisodeGapDays == 20
BogusNextAirDays == 10
SoonMovieDays == 14

Frequencies == {"day", "week", "month", "never"}
Files == {"a.zip", "b.zip"}

\* How far the clock moves between two UI events.
TickSteps == {1, DayTicks, 4 * DayTicks, WeekFreqDays * DayTicks}
\* How far the clock moves between two checks of the notification list: a
\* moment, or about the twelve hours of the rate limit.
NotifySteps == {1, NotificationHours * HourTicks - 1, NotificationHours * HourTicks}
\* The library (days are counted from the stored 'last-update' day; the
\* library specification starts on day 30). NoDate is the empty string TMDB
\* gives for a series without a next air date.
NoDate == 0
SeriesIds == 1..MaxSeries
MovieIds == 1..MaxMovies
\* Last air dates: an episode of some weeks ago, and one of two days ago.
LastAirDays == {5, 28}
\* Next air dates TMDB gives: none, or day 40.
NextAirDays == {NoDate, 40}
\* Release dates of the movies: day 40 and day 60.
ReleaseDays == {40, 60}
\* Between two runs of the notification-list update a week and a moment pass.
LibraryStep == 7 * DayTicks + 1
\* The clock when the main view is first mapped, relative to midnight of the
\* stored 'last-update' day.
StartTimes == {0, MonthFreqDays * DayTicks}

VARIABLES
    now,                      \* datetime.now(), in ticks
    first_run,                \* shared.schema 'first-run'
    last_update,              \* shared.schema 'last-update': a day ('%Y-%m-%d')
    update_freq,              \* shared.schema 'update-freq'
    last_notification_update, \* shared.schema 'last-notification-update': a minute
    activities,               \* BackgroundQueue._queue: the activities, in enqueue order
    completions,              \* results posted to the UI loop, handler not yet run
    doneLog,                  \* the completion handler invocations, in order
    dialog,                   \* the dialog the application is waiting on
    archive,                  \* TicketboothApplication.archive
    presented,                \* result dialogs presented and window actions activated
    needs_refresh,            \* MainView._needs_refresh
    lastAutoUpdate,           \* when the last 'Automatic update' was enqueued (-1: never)
    lastNotificationAdd,      \* when the last notification-list update was enqueued (-1: never)
    addedWhileRunning,        \* history: an activity was enqueued while a work was running
    addedAfterFailure,        \* history: an activity was enqueued after a handler got a failure
    nticks,                   \* clock advances so far
    series,                   \* local store: the series on the notification list
    movies,                   \* local store: the movies on the notification list
    tmdb_series,              \* what tmdb.get_serie(id) answers
    tmdb_movies,              \* what tmdb.get_movie(id) answers
    lastRun,                  \* the result lists and the notification of the last run
    notified,                 \* per movie: the runs that put it on a result list
    nruns,                    \* runs of _update_notification_list so far
    nl,                       \* the work _update_notification_list, store call by store call
    uc                        \* the work _update_content, store call by store call

vars == <<now, first_run, last_update, update_freq, last_notification_update,
          activities, completions, doneLog, dialog, archive, presented,
          needs_refresh, lastAutoUpdate, lastNotificationAdd,
          addedWhileRunning, addedAfterFailure, nticks,
          series, movies, tmdb_series, tmdb_movies, lastRun, notified, nruns,
          nl, uc>>

schemaVars == <<first_run, last_update, update_freq, last_notification_update>>
queueVars == <<activities, completions, doneLog>>
appVars == <<dialog, archive, presented, needs_refresh>>
libVars == <<series, movies, tmdb_series, tmdb_movies, lastRun, notified, nruns,
             nl, uc>>
histVars == <<lastNotificationAdd, addedWhileRunning, addedAfterFailure>>

\* ------------------------------------------------------------- dates
\* datetime.now().strftime('%Y-%m-%d'): the day, the time of day is dropped
strftime_date(t) == t \div DayTicks
\* datetime.fromisoformat of a '%Y-%m-%d' string: midnight of that day
fromisoformat_date(d) == d * DayTicks
\* datetime.now().strftime('%Y-%m-%d %H:%M'): the minute, seconds are dropped
strftime_minute(t) == t \div MinuteTicks
\* datetime.fromisoformat of a '%Y-%m-%d %H:%M' string
fromisoformat_minute(m) == m * MinuteTicks
timedelta_days(n) == n * DayTicks
timedelta_hours(n) == n * HourTicks

\* ------------------------------------------- BackgroundActivity (design 3, 4.1)
\* Values a finished work hands to the completion handler: the task function's
\* return value ("true", "false", "none"), or "error" when it raised.
Results == {"true", "false", "none", "error"}

\* BackgroundActivity(activity_type, title, task_function): a new activity,
\* not started; on_done and origin are filled in by BackgroundQueue.add.
\* History kept for the properties: outcome (what the environment made of
\* the work) and chosen (the file selected in the dialog flow that enqueued
\* an export or an import).
BackgroundActivity(activity_type, title, task_function) ==
    [activity_type |-> activity_type,
     title |-> title,
     task_function |-> task_function,
     on_done |-> "",
     origin |-> "",
     outcome |-> "",
     chosen |-> "",
     started |-> FALSE,
     finished |-> FALSE,
     runs |-> 0,
     result |-> "unset",
     has_error |-> FALSE,
     completed |-> FALSE]

\* activity.error(): the work flags a failure
activity_error(a) == [a EXCEPT !.has_error = TRUE]

\* activity.end(): the completion handler ends the activity
activity_end(a) == [a EXCEPT !.completed = TRUE]

\* activity.activity_finish(result, activity): the value the work returned
activity_finish(result, a) == result

\* Python truth of a result value (None, False and a failed task are falsy)
Truthy(result) == result = "true"

\* A failure result: the work returned failure or raised.
IsFailure(result) == result \in {"false", "error"}

\* pending -> running -> succeeded | failed
Status(a) ==
    IF a.completed THEN (IF a.has_error THEN "failed" ELSE "succeeded")
    ELSE IF a.started THEN "running"
    ELSE "pending"

IsTerminal(st) == st \in {"succeeded", "failed"}

Rank(st) == CASE st = "pending" -> 0 [] st = "running" -> 1 [] OTHER -> 2

\* ------------------------------------------------ BackgroundQueue (design 4.2)
\* BackgroundQueue.add(activity, on_done), called on context ctx: the activity
\* joins the queue and a worker is spawned for it; add returns at once, the
\* activity is left pending.
Running(queue) ==
    Cardinality({i \in 1..Len(queue) : queue[i].started /\ ~queue[i].finished})

\* BackgroundQueue.add running the work itself: the caller gets control back
\* only when the work has ended.
BackgroundQueue_add_blocking(queue, activity, on_done, ctx) ==
    Append(queue, [activity EXCEPT !.on_done = on_done, !.origin = ctx,
                                   !.started = TRUE, !.runs = 1])

\* BackgroundQueue.add losing an update: the new activity takes the place of
\* the last one when that one has not been started yet.
BackgroundQueue_add_overwrite(queue, activity, on_done, ctx) ==
    LET new == [activity EXCEPT !.on_done = on_done, !.origin = ctx]
    IN  IF Len(queue) > 0 /\ ~queue[Len(queue)].started
        THEN [queue EXCEPT ![Len(queue)] = new]
        ELSE Append(queue, new)

BackgroundQueue_add(queue, activity, on_done, ctx) ==
    Append(queue, [activity EXCEPT !.on_done = on_done, !.origin = ctx])

\* History of the calls of add: queue is what the calls of one UI callback
\* made of the queue.
RecordAdd(queue) ==
    LET added == queue # activities
    IN  /\ lastNotificationAdd' =
               IF \E i \in (Len(activities) + 1)..Len(queue) :
                      queue[i].task_function = "update_notification_list"
               THEN now ELSE lastNotificationAdd
        /\ addedWhileRunning' =
               (addedWhileRunning \/ (added /\ Running(activities) > 0))
        /\ addedAfterFailure' =
               (addedAfterFailure
                \/ (added /\ \E k \in 1..Len(doneLog) : IsFailure(doneLog[k].result)))

\* ------------------------------------------------------------ MainView
\* The activities _check_update_content creates.
NotificationListActivity ==
    BackgroundActivity("UPDATE", "Automatic update of notification list",
                       "update_notification_list")
AutomaticUpdateActivity ==
    BackgroundActivity("UPDATE", "Automatic update", "update_content")

\* The tests of the 'match frequency' arms with <= for <
UpdateDue_le(frequency, last_check, t) ==
    CASE frequency = "day" -> last_check + timedelta_days(DayFreqDays) <= t
      [] frequency = "week" -> last_check + timedelta_days(WeekFreqDays) <= t
      [] frequency = "month" -> last_check + timedelta_days(MonthFreqDays) <= t
      [] OTHER -> FALSE

\* The test of the 'match frequency' arm that frequency selects: is a content
\* update due at time t, the last check having been at last_check?
UpdateDue(frequency, last_check, t) ==
    CASE frequency = "day" -> last_check + timedelta_days(DayFreqDays) < t
      [] frequency = "week" -> last_check + timedelta_days(WeekFreqDays) < t
      [] frequency = "month" -> last_check + timedelta_days(MonthFreqDays) < t
      [] OTHER -> FALSE

\* The test that guards the notification-list update with <= for <
NotificationDue_le(last_notification_check, t) ==
    last_notification_check + timedelta_hours(NotificationHours) <= t

\* The test that guards the notification-list update.
NotificationDue(last_notification_check, t) ==
    last_notification_check + timedelta_hours(NotificationHours) < t

\* MainView._check_update_content. The callback runs within one tick of the
\* clock: every datetime.now() it reads is `now`.
check_update_content ==
    LET last_check == fromisoformat_date(last_update)
        frequency == update_freq
        last_notification_check == fromisoformat_minute(last_notification_update)
        notification_due == NotificationDue(last_notification_check, now)
        queue1 == IF notification_due
                  THEN BackgroundQueue_add(activities, NotificationListActivity,
                                           "on_notification_list_done", "ui")
                  ELSE activities
        update_due == UpdateDue(frequency, last_check, now)
        queue2 == IF update_due
                  THEN BackgroundQueue_add(queue1, AutomaticUpdateActivity,
                                           "on_update_done", "ui")
                  ELSE queue1
    IN  /\ last_notification_update' =
               IF notification_due THEN strftime_minute(now)
               ELSE last_notification_update
        /\ activities' = queue2
        /\ last_update' = IF frequency = "never" THEN last_update
                          ELSE strftime_date(now)
        /\ lastAutoUpdate' = IF update_due THEN now ELSE lastAutoUpdate
        /\ RecordAdd(queue2)
        /\ UNCHANGED <<now, nticks, first_run, update_freq, completions, doneLog,
                       dialog, archive, presented, needs_refresh, libVars>>

\* MainView._on_map: the "map" signal of the main view
on_map ==
    IF ~first_run THEN check_update_content ELSE UNCHANGED vars

\* MainView._update_content, the work of 'Automatic update': it returns None,
\* or raises when a provider call raises (outcome "raise").
update_content(a, outcome) ==
    [activity |-> a, raised |-> outcome = "raise", ret |-> "none"]

\* MainView._update_notification_list, the work of the notification-list
\* update: it returns None, or raises when a provider call raises.
update_notification_list(a, outcome) ==
    [activity |-> a, raised |-> outcome = "raise", ret |-> "none"]

\* ------------------------------------------------- the library (local store)
\* The store as the main view uses it: db.series and db.movies hold a row per
\* id. Every call of the store is one step (the store serializes its calls).
\* local.set_new_release_status(id, value, movie)
set_new_release_status(db, id, value, movie) ==
    IF movie THEN [db EXCEPT !.movies[id].new_release = value]
    ELSE [db EXCEPT !.series[id].new_release = value]

\* local.set_soon_release_status(id, value, movie)
set_soon_release_status(db, id, value, movie) ==
    IF movie THEN [db EXCEPT !.movies[id].soon_release = value]
    ELSE [db EXCEPT !.series[id].soon_release = value]

\* local.set_recent_change_status(id, value, movie)
set_recent_change_status(db, id, value, movie) ==
    IF movie THEN [db EXCEPT !.movies[id].recent_change = value]
    ELSE [db EXCEPT !.series[id].recent_change = value]

\* local.set_notification_list_status(id, value)
set_notification_list_status(db, id, value) ==
    [db EXCEPT !.series[id].activate_notification = value]

\* local.update_series(old, new): the row takes the data of new and keeps the
\* flags that old carries (the caller refetches old "to get all the correct
\* flags that we set from the database").
update_series(db, old, new) ==
    [db EXCEPT !.series[old.id] =
        [id |-> old.id,
         last_air_date |-> new.last_air_date,
         in_production |-> new.in_production,
         new_release |-> old.new_release,
         soon_release |-> old.soon_release,
         recent_change |-> old.recent_change,
         activate_notification |-> old.activate_notification]]

\* local.update_movie(old, new): an SQL UPDATE of the data of new; the flags
\* of the row stay as they are.
update_movie(db, old, new) ==
    [db EXCEPT !.movies[old.id].release_date = new.release_date]

\* local.get_all_series_notification_list(), in id order
RECURSIVE RowsFrom(_, _, _)
RowsFrom(table, id, last) ==
    IF id > last THEN <<>>
    ELSE (IF id \in DOMAIN table /\ table[id].activate_notification
          THEN <<table[id]>> ELSE <<>>) \o RowsFrom(table, id + 1, last)

get_all_series_notification_list(db) == RowsFrom(db.series, 1, Len(db.series))
get_all_movies_notification_list(db) == RowsFrom(db.movies, 1, Len(db.movies))
\* local.get_series_by_id(id)
get_series_by_id(db, id) == db.series[id]

\* ---------------------------------------- MainView._update_notification_list
\* datetime.strptime(date, '%Y-%m-%d'): midnight of the day
strptime_date(d) == d * DayTicks

\* The result lists of a run, empty.
NoLists ==
    [new_release_series |-> <<>>, soon_release_series |-> <<>>,
     out_of_production_series |-> <<>>,
     new_release_movies |-> <<>>, soon_release_movies |-> <<>>]

\* The store calls of 'if last_air_date < new_last_air_date' without the one
\* that takes the soon_release flag back
mark_new_release_keep_soon(db, id) ==
    set_recent_change_status(set_new_release_status(db, id, TRUE, FALSE),
                             id, TRUE, FALSE)

\* The store calls of 'if last_air_date < new_last_air_date': the series has
\* a new release, which is no longer a release to come.
mark_new_release(db, id) ==
    set_recent_change_status(
        set_soon_release_status(
            set_new_release_status(db, id, TRUE, FALSE), id, FALSE, FALSE),
        id, TRUE, FALSE)

\* One iteration of the series loop: serie is the row read at the start of
\* the run, st.db the store and st.lists the result lists so far, t is
\* datetime.now().
check_serie(st, serie, t) ==
    LET id == serie.id
        last_air_date == strptime_date(serie.last_air_date)
        new_serie == tmdb_series[id]
        new_last_air_date == strptime_date(new_serie.last_air_date)
        new_next_air_date ==
            IF new_serie.next_air_date # NoDate
            THEN strptime_date(new_serie.next_air_date)
            ELSE t + timedelta_days(BogusNextAirDays)
        is_new == last_air_date < new_last_air_date
        db1 == IF is_new THEN mark_new_release(st.db, id) ELSE st.db
        lists1 == IF is_new
                  THEN [st.lists EXCEPT !.new_release_series = Append(@, id)]
                  ELSE st.lists
        is_soon == t + timedelta_days(SoonSeriesDays) > new_next_air_date
        db2 == IF is_soon THEN set_soon_release_status(db1, id, TRUE, FALSE) ELSE db1
        is_gap == /\ is_soon
                  /\ new_next_air_date - timedelta_days(EpisodeGapDays) > last_air_date
        db3 == IF is_gap THEN set_recent_change_status(db2, id, TRUE, FALSE) ELSE db2
        lists2 == IF is_gap
                  THEN [lists1 EXCEPT !.soon_release_series = Append(@, id)]
                  ELSE lists1
        is_out == serie.in_production = 1 /\ new_serie.in_production = 0
        db4 == IF is_out
               THEN set_notification_list_status(
                        set_recent_change_status(db3, id, TRUE, FALSE), id, FALSE)
               ELSE db3
        lists3 == IF is_out
                  THEN [lists2 EXCEPT !.out_of_production_series = Append(@, id)]
                  ELSE lists2
        refetched == get_series_by_id(db4, id)
    IN  [db |-> update_series(db4, refetched, new_serie), lists |-> lists3]

\* The 'if not movie.new_release' and 'if not movie.soon_release' of the
\* movie loop, without the test of the stored flag
notify_movie_always(lists, movie, released, soon) ==
    IF released
    THEN [lists EXCEPT !.new_release_movies = Append(@, movie.id)]
    ELSE IF soon
    THEN [lists EXCEPT !.soon_release_movies = Append(@, movie.id)]
    ELSE lists

\* The 'if not movie.new_release' and 'if not movie.soon_release' of the
\* movie loop: the movie is put on a result list when the flag of the row
\* read before the loop was not set.
notify_movie(lists, movie, released, soon) ==
    IF released /\ ~movie.new_release
    THEN [lists EXCEPT !.new_release_movies = Append(@, movie.id)]
    ELSE IF soon /\ ~movie.soon_release
    THEN [lists EXCEPT !.soon_release_movies = Append(@, movie.id)]
    ELSE lists

\* One iteration of the movie loop: movie is the row read before the loop.
check_movie(st, movie, t) ==
    LET id == movie.id
        new_movie == tmdb_movies[id]
        release_date == strptime_date(new_movie.release_date)
        released == release_date < t
        soon == ~released /\ release_date < t + timedelta_days(SoonMovieDays)
        db1 == IF released
               THEN set_soon_release_status(
                        set_new_release_status(
                            set_recent_change_status(st.db, id, TRUE, TRUE),
                            id, TRUE, TRUE),
                        id, FALSE, TRUE)
               ELSE IF soon
               THEN set_soon_release_status(
                        set_recent_change_status(st.db, id, TRUE, TRUE),
                        id, TRUE, TRUE)
               ELSE st.db
    IN  [db |-> update_movie(db1, movie, new_movie),
         lists |-> notify_movie(st.lists, movie, released, soon)]

\* 'for serie in series' and 'for movie in movies'
RECURSIVE check_all(_, _, _, _)
check_all(st, rows, t, movie) ==
    IF rows = <<>> THEN st
    ELSE check_all(IF movie THEN check_movie(st, Head(rows), t)
                   ELSE check_serie(st, Head(rows), t),
                   Tail(rows), t, movie)

\* length_check(x): len(x) > 0, counted as 0 or 1
length_check(x) == IF Len(x) > 0 THEN 1 ELSE 0

\* title and body before the branches of 'elif count == 1' assign them
Unassigned == [title |-> "unassigned", body |-> "unassigned", num |-> 0]

\* One 'if <list>:' block of the branch 'count == 1': the notification text
\* for one entry, or for several (num is the number the title reports, 0 when
\* the title reports none).
category_text(n, list, one_title, one_body, many_title, many_body, many_num) ==
    IF list # <<>>
    THEN IF Len(list) = 1
         THEN [title |-> one_title, body |-> one_body, num |-> 0]
         ELSE [title |-> many_title, body |-> many_body, num |-> many_num]
    ELSE n

\* The branch 'elif count == 1'
category_notification(lists) ==
    LET n1 == category_text(Unassigned, lists.new_release_series,
                  "New release for {title}",
                  "A new episode of {title} was released {days} days ago.",
                  "New release for {num} TV series on your watchlist",
                  "The TV Series are {series}.",
                  Len(lists.new_release_series))
        n2 == category_text(n1, lists.soon_release_series,
                  "{title} will have a release soon",
                  "A new episode will release in {days} days.",
                  "{num} TV Series on your watchlist will have a new episode soon",
                  "The TV Series are {series}.",
                  Len(lists.soon_release_series))
        n3 == category_text(n2, lists.out_of_production_series,
                  "{title} has gone out of production",
                  "{title} has wrapped up its run.",
                  "{num} TV Series of your watchlist have gone out of production",
                  "The TV Series are {series}.",
                  Len(lists.out_of_production_series))
        n4 == category_text(n3, lists.new_release_movies,
                  "{title} has had its release!",
                  "{title} was released {days} days ago.",
                  "{num} movies on your watchlist have had their releases.",
                  "The movies are {movies}.",
                  Len(lists.new_release_movies))
    IN  category_text(n4, lists.soon_release_movies,
                  "{title} will have its release soon!",
                  "{title} will have its release in {days} days.",
                  "{num} movies on your watchlist will have their releases soon",
                  "The movies are {movies}.",
                  0)

\* The branch 'else' (two or more lists are not empty)
summary_notification(lists) ==
    LET count_movies == Len(lists.new_release_movies) + Len(lists.soon_release_movies)
        count_series == Len(lists.new_release_series) + Len(lists.soon_release_series)
                            + Len(lists.out_of_production_series)
    IN  [title |-> "{num} items of your watchlist have an update",
         num |-> count_movies + count_series,
         body |-> IF count_movies > 0 /\ count_series > 0
                  THEN "These updates affect {count_movies} movies and {count_series} TV series."
                  ELSE IF count_movies > 0
                  THEN "These updates affect {count_movies} movies"
                  ELSE IF count_series > 0
                  THEN "These updates affect {count_series} TV series"
                  ELSE "unassigned"]

\* The end of _update_notification_list with a count that leaves out the
\* out-of-production list
send_notifications_no_out(lists) ==
    LET count == length_check(lists.new_release_movies)
                     + length_check(lists.new_release_series)
                     + length_check(lists.soon_release_movies)
                     + length_check(lists.soon_release_series)
    IN  IF count = 0 THEN <<>>
        ELSE IF count = 1 THEN <<category_notification(lists)>>
        ELSE <<summary_notification(lists)>>

\* The end of _update_notification_list: the notifications the run sends
\* through self.app.send_notification.
send_notifications(lists) ==
    LET count == length_check(lists.new_release_movies)
                     + length_check(lists.new_release_series)
                     + length_check(lists.soon_release_movies)
                     + length_check(lists.soon_release_series)
                     + length_check(lists.out_of_production_series)
    IN  IF count = 0 THEN <<>>
        ELSE IF count = 1 THEN <<category_notification(lists)>>
        ELSE <<summary_notification(lists)>>

\* The body of _update_notification_list run on the store db at time t: the
\* store it leaves, its result lists and what it sends.
update_notification_list_body(db, t) ==
    LET s1 == check_all([db |-> db, lists |-> NoLists],
                        get_all_series_notification_list(db), t, FALSE)
        s2 == check_all(s1, get_all_movies_notification_list(s1.db), t, TRUE)
    IN  [db |-> s2.db, lists |-> s2.lists, sent |-> send_notifications(s2.lists)]

\* How often x is in the list
CountIn(list, x) == Cardinality({k \in 1..Len(list) : list[k] = x})

\* A worker runs _update_notification_list from its first to its last line
\* with no other work on the store in between.
UpdateNotificationList ==
    /\ nruns < MaxRuns
    /\ LET r == update_notification_list_body([series |-> series, movies |-> movies], now)
       IN  /\ series' = r.db.series
           /\ movies' = r.db.movies
           /\ lastRun' = [lists |-> r.lists, sent |-> r.sent]
           /\ notified' = [m \in DOMAIN notified |->
                  [new |-> notified[m].new + CountIn(r.lists.new_release_movies, m),
                   soon |-> notified[m].soon + CountIn(r.lists.soon_release_movies, m)]]
    /\ nruns' = nruns + 1
    /\ UNCHANGED <<now, nticks, schemaVars, queueVars, appVars, lastAutoUpdate,
                   histVars, tmdb_series, tmdb_movies, nl, uc>>

\* ------------------------------- the two update works, store call by store call
\* local.get_all_series() and local.get_all_movies(), in id order
RECURSIVE AllRowsFrom(_, _, _)
AllRowsFrom(table, id, last) ==
    IF id > last THEN <<>>
    ELSE <<table[id]>> \o AllRowsFrom(table, id + 1, last)

get_all_series(db) == AllRowsFrom(db.series, 1, Len(db.series))
get_all_movies(db) == AllRowsFrom(db.movies, 1, Len(db.movies))

Store == [series |-> series, movies |-> movies]

otherVars == <<now, nticks, schemaVars, queueVars, appVars, lastAutoUpdate,
               histVars, tmdb_series, tmdb_movies>>

\* _update_notification_list, line 237: the rows of the series are read
NlGetSeries ==
    /\ nl.pc = "start"
    /\ nl' = [pc |-> "series", rows |-> get_all_series_notification_list(Store),
              lists |-> NoLists]
    /\ UNCHANGED <<otherVars, series, movies, lastRun, notified, nruns, uc>>

\* _update_notification_list, lines 243-286: one iteration of the series loop
NlSerie ==
    /\ nl.pc = "series"
    /\ nl.rows # <<>>
    /\ LET st == check_serie([db |-> Store, lists |-> nl.lists], Head(nl.rows), now)
       IN  /\ series' = st.db.series
           /\ nl' = [nl EXCEPT !.rows = Tail(@), !.lists = st.lists]
    /\ UNCHANGED <<otherVars, movies, lastRun, notified, nruns, uc>>

\* _update_notification_list, line 288: the rows of the movies are read
NlGetMovies ==
    /\ nl.pc = "series"
    /\ nl.rows = <<>>
    /\ nl' = [nl EXCEPT !.pc = "movies",
                        !.rows = get_all_movies_notification_list(Store)]
    /\ UNCHANGED <<otherVars, series, movies, lastRun, notified, nruns, uc>>

\* _update_notification_list, lines 293-314: one iteration of the movie loop
NlMovie ==
    /\ nl.pc = "movies"
    /\ nl.rows # <<>>
    /\ LET st == check_movie([db |-> Store, lists |-> nl.lists], Head(nl.rows), now)
       IN  /\ movies' = st.db.movies
           /\ nl' = [nl EXCEPT !.rows = Tail(@), !.lists = st.lists]
    /\ UNCHANGED <<otherVars, series, lastRun, notified, nruns, uc>>

\* _update_notification_list, lines 316-434: the notification is sent
NlSend ==
    /\ nl.pc = "movies"
    /\ nl.rows = <<>>
    /\ nl' = [nl EXCEPT !.pc = "done"]
    /\ lastRun' = [lists |-> nl.lists, sent |-> send_notifications(nl.lists)]
    /\ UNCHANGED <<otherVars, series, movies, notified, nruns, uc>>

\* _update_content, line 202: movies = local.get_all_movies()
UcGetMovies ==
    /\ uc.pc = "start"
    /\ uc' = [pc |-> "movies", rows |-> get_all_movies(Store)]
    /\ UNCHANGED <<otherVars, series, movies, lastRun, notified, nruns, nl>>

\* _update_content, lines 204-207: one iteration of the movie loop
UcMovie ==
    /\ uc.pc = "movies"
    /\ uc.rows # <<>>
    /\ LET movie == Head(uc.rows)
           new_movie == tmdb_movies[movie.id]
       IN  movies' = update_movie(Store, movie, new_movie).movies
    /\ uc' = [uc EXCEPT !.rows = Tail(@)]
    /\ UNCHANGED <<otherVars, series, lastRun, notified, nruns, nl>>

\* _update_content, line 209: series = local.get_all_series()
UcGetSeries ==
    /\ uc.pc = "movies"
    /\ uc.rows = <<>>
    /\ uc' = [pc |-> "series", rows |-> get_all_series(Store)]
    /\ UNCHANGED <<otherVars, series, movies, lastRun, notified, nruns, nl>>

\* _update_content, lines 211-214: one iteration of the series loop, with the
\* row read at line 209
UcSerie ==
    /\ uc.pc = "series"
    /\ uc.rows # <<>>
    /\ LET serie == Head(uc.rows)
           new_serie == tmdb_series[serie.id]
       IN  series' = update_series(Store, serie, new_serie).series
    /\ uc' = [uc EXCEPT !.rows = Tail(@)]
    /\ UNCHANGED <<otherVars, movies, lastRun, notified, nruns, nl>>

\* _update_content returns
UcReturn ==
    /\ uc.pc = "series"
    /\ uc.rows = <<>>
    /\ uc' = [uc EXCEPT !.pc = "done"]
    /\ UNCHANGED <<otherVars, series, movies, lastRun, notified, nruns, nl>>

\* MainView.refresh with the tab `visible` shown
refresh(visible) == IF visible = "movies" THEN "series" ELSE "movies"

\* _on_update_done without its last line, activity.end()
on_update_done_no_end(i, result, visible) ==
    /\ needs_refresh' = refresh(visible)
    /\ activities' = activities
    /\ UNCHANGED presented

\* MainView._on_update_done(source, result, cancellable, activity)
on_update_done(i, result, visible) ==
    /\ needs_refresh' = refresh(visible)
    /\ activities' = [activities EXCEPT ![i] = activity_end(@)]
    /\ UNCHANGED presented

\* MainView._on_notification_list_done(source, result, cancellable, activity)
on_notification_list_done(i, result, visible) ==
    /\ needs_refresh' = refresh(visible)
    /\ activities' = [activities EXCEPT ![i] = activity_end(@)]
    /\ UNCHANGED presented

\* ---------------------------------------------------- TicketboothApplication
ExportActivity ==
    BackgroundActivity("ADD", "Exporting library", "export_content_from_db")
ImportActivity ==
    BackgroundActivity("ADD", "Importing library", "import_content_to_db")

\* do_export: the app.export action opens the (modal) file dialog
do_export ==
    /\ dialog = "none"
    /\ dialog' = "save"
    /\ UNCHANGED <<now, nticks, schemaVars, queueVars, archive, presented,
                   needs_refresh, lastAutoUpdate, histVars, libVars>>

\* _on_file_save_complete: chosen is the selected file, or "cancelled" when
\* save_finish raises GLib.GError
on_file_save_complete(chosen) ==
    /\ dialog = "save"
    /\ IF chosen # "cancelled"
       THEN archive' = chosen /\ dialog' = "confirm_export"
       ELSE archive' = archive /\ dialog' = "none"
    /\ UNCHANGED <<now, nticks, schemaVars, queueVars, presented,
                   needs_refresh, lastAutoUpdate, histVars, libVars>>

\* _on_export_alert_dialog_choose
on_export_alert_dialog_choose(response) ==
    /\ dialog = "confirm_export"
    /\ dialog' = "none"
    /\ IF response = "cancel"
       THEN activities' = activities
       ELSE activities' = BackgroundQueue_add(activities,
                                              [ExportActivity EXCEPT !.chosen = archive],
                                              "on_export_done", "ui")
    /\ RecordAdd(activities')
    /\ UNCHANGED <<now, nticks, schemaVars, completions, doneLog, archive,
                   presented, needs_refresh, lastAutoUpdate, libVars>>

\* _export_content_from_db ending in 'return True'
export_content_from_db_true(a, provider) ==
    IF provider = "raise"
    THEN [activity |-> a, raised |-> TRUE, ret |-> "none"]
    ELSE LET result == provider
         IN  [activity |-> IF ~Truthy(result) THEN activity_error(a) ELSE a,
              raised |-> FALSE,
              ret |-> "true"]

\* _export_content_from_db, the work of 'Exporting library': provider is what
\* local.export_data(self.archive.get_path()) returns, or "raise"
export_content_from_db(a, provider) ==
    IF provider = "raise"
    THEN [activity |-> a, raised |-> TRUE, ret |-> "none"]
    ELSE LET result == provider
         IN  [activity |-> IF ~Truthy(result) THEN activity_error(a) ELSE a,
              raised |-> FALSE,
              ret |-> result]

\* _on_export_done(source, result, cancellable, activity)
on_export_done(i, result, visible) ==
    LET res == activity_finish(result, activities[i])
    IN  /\ activities' = [activities EXCEPT ![i] = activity_end(@)]
        /\ presented' = Append(presented,
                               IF Truthy(res) THEN "Export Completed"
                               ELSE "Export failed")
        /\ UNCHANGED needs_refresh

\* do_import: the app.import action opens the (modal) file dialog
do_import ==
    /\ dialog = "none"
    /\ dialog' = "open"
    /\ UNCHANGED <<now, nticks, schemaVars, queueVars, archive, presented,
                   needs_refresh, lastAutoUpdate, histVars, libVars>>

\* _on_file_open_complete
on_file_open_complete(chosen) ==
    /\ dialog = "open"
    /\ IF chosen # "cancelled"
       THEN archive' = chosen /\ dialog' = "confirm_import"
       ELSE archive' = archive /\ dialog' = "none"
    /\ UNCHANGED <<now, nticks, schemaVars, queueVars, presented,
                   needs_refresh, lastAutoUpdate, histVars, libVars>>

\* _on_import_alert_dialog_choose
on_import_alert_dialog_choose(response) ==
    /\ dialog = "confirm_import"
    /\ dialog' = "none"
    /\ IF response = "cancel"
       THEN activities' = activities
       ELSE activities' = BackgroundQueue_add(activities,
                                              [ImportActivity EXCEPT !.chosen = archive],
                                              "on_import_done", "ui")
    /\ RecordAdd(activities')
    /\ UNCHANGED <<now, nticks, schemaVars, completions, doneLog, archive,
                   presented, needs_refresh, lastAutoUpdate, libVars>>

\* _import_content_to_db returning the error flag instead of the result
import_content_to_db_flag(a, provider) ==
    IF provider = "raise"
    THEN [activity |-> a, raised |-> TRUE, ret |-> "none"]
    ELSE LET result == provider
         IN  [activity |-> IF ~Truthy(result) THEN activity_error(a) ELSE a,
              raised |-> FALSE,
              ret |-> IF Truthy(result) THEN "false" ELSE "true"]

\* _import_content_to_db, the work of 'Importing library'
import_content_to_db(a, provider) ==
    IF provider = "raise"
    THEN [activity |-> a, raised |-> TRUE, ret |-> "none"]
    ELSE LET result == provider
         IN  [activity |-> IF ~Truthy(result) THEN activity_error(a) ELSE a,
              raised |-> FALSE,
              ret |-> result]

\* _on_import_done activating win.refresh before either dialog
on_import_done_refresh(i, result, visible) ==
    LET res == activity_finish(result, activities[i])
    IN  /\ activities' = [activities EXCEPT ![i] = activity_end(@)]
        /\ presented' = IF Truthy(res)
                        THEN presented \o <<"win.refresh", "Import Completed">>
                        ELSE presented \o <<"win.refresh", "Import failed">>
        /\ UNCHANGED needs_refresh

\* _on_import_done(source, result, cancellable, activity)
on_import_done(i, result, visible) ==
    LET res == activity_finish(result, activities[i])
    IN  /\ activities' = [activities EXCEPT ![i] = activity_end(@)]
        /\ presented' = IF Truthy(res)
                        THEN presented \o <<"win.refresh", "Import Completed">>
                        ELSE Append(presented, "Import failed")
        /\ UNCHANGED needs_refresh

\* ------------------------------------------------- workers and the UI loop
\* What the environment can make of a task function: the provider's answer
\* for export and import, and a provider call that raises.
Outcomes(a) ==
    IF a.task_function \in {"export_content_from_db", "import_content_to_db"}
    THEN {"true", "false", "raise"}
    ELSE {"none", "raise"}

\* task_function(activity), the callable given to BackgroundActivity
TaskFunction(a, outcome) ==
    CASE a.task_function = "export_content_from_db" -> export_content_from_db(a, outcome)
      [] a.task_function = "import_content_to_db" -> import_content_to_db(a, outcome)
      [] a.task_function = "update_content" -> update_content(a, outcome)
      [] OTHER -> update_notification_list(a, outcome)

\* BackgroundActivity.run: executes the work; an error the work raises is
\* caught here and becomes a failure (error flag set, result "error").
activity_run(a, outcome) ==
    LET r == TaskFunction(a, outcome)
    IN  IF r.raised
        THEN [activity_error(r.activity) EXCEPT !.finished = TRUE, !.result = "error"]
        ELSE [r.activity EXCEPT !.finished = TRUE, !.result = r.ret]

\* StartWork posting the completion already when the work starts.
StartWork_post(i) ==
    /\ i \in 1..Len(activities)
    /\ ~activities[i].started
    /\ activities' = [activities EXCEPT ![i].started = TRUE, ![i].runs = @ + 1]
    /\ completions' = completions \cup {[activity |-> i, to |-> activities[i].origin]}
    /\ UNCHANGED <<now, nticks, schemaVars, doneLog, appVars, lastAutoUpdate, histVars, libVars>>

\* StartWork retrying: the worker runs the work of an activity again
\* although it has already been started.
StartWork_again(i) ==
    /\ i \in 1..Len(activities)
    /\ ~activities[i].completed
    /\ activities[i].runs < 2
    /\ activities' = [activities EXCEPT ![i].started = TRUE, ![i].runs = @ + 1]
    /\ UNCHANGED <<now, nticks, schemaVars, completions, doneLog, appVars,
                   lastAutoUpdate, histVars, libVars>>

\* The worker spawned for activity i starts the work.
StartWork(i) ==
    /\ i \in 1..Len(activities)
    /\ ~activities[i].started
    /\ activities' = [activities EXCEPT ![i].started = TRUE, ![i].runs = @ + 1]
    /\ UNCHANGED <<now, nticks, schemaVars, completions, doneLog, appVars,
                   lastAutoUpdate, histVars, libVars>>

\* The work of activity i ends (with the given outcome) and its result is
\* posted back to the context that enqueued it.
FinishWork(i, outcome) ==
    /\ i \in 1..Len(activities)
    /\ activities[i].started
    /\ ~activities[i].finished
    /\ outcome \in Outcomes(activities[i])
    /\ activities' = [activities EXCEPT
                          ![i] = [activity_run(@, outcome) EXCEPT !.outcome = outcome]]
    /\ completions' = completions \cup {[activity |-> i, to |-> activities[i].origin]}
    /\ UNCHANGED <<now, nticks, schemaVars, doneLog, appVars, lastAutoUpdate, histVars, libVars>>

\* The handler on_done of activity i, called with (activity, result).
InvokeHandler(i, result, visible) ==
    CASE activities[i].on_done = "on_export_done" -> on_export_done(i, result, visible)
      [] activities[i].on_done = "on_import_done" -> on_import_done(i, result, visible)
      [] activities[i].on_done = "on_update_done" -> on_update_done(i, result, visible)
      [] OTHER -> on_notification_list_done(i, result, visible)

\* DispatchCompletion leaving the posted result in place, so that the loop
\* can deliver it again.
DispatchCompletion_again(ctx, c, visible) ==
    /\ c \in completions
    /\ c.to = ctx
    /\ Len(doneLog) < 2 * MaxQueue
    /\ completions' = completions
    /\ doneLog' = Append(doneLog, [handler |-> activities[c.activity].on_done,
                                   activity |-> c.activity,
                                   title |-> activities[c.activity].title,
                                   result |-> activities[c.activity].result,
                                   context |-> ctx])
    /\ InvokeHandler(c.activity, activities[c.activity].result, visible)
    /\ UNCHANGED <<now, nticks, schemaVars, dialog, archive, lastAutoUpdate, histVars, libVars>>

\* The loop of context ctx takes a posted result and invokes the completion
\* handler with the activity and its result.
DispatchCompletion(ctx, c, visible) ==
    /\ c \in completions
    /\ c.to = ctx
    /\ completions' = completions \ {c}
    /\ doneLog' = Append(doneLog, [handler |-> activities[c.activity].on_done,
                                   activity |-> c.activity,
                                   title |-> activities[c.activity].title,
                                   result |-> activities[c.activity].result,
                                   context |-> ctx])
    /\ InvokeHandler(c.activity, activities[c.activity].result, visible)
    /\ UNCHANGED <<now, nticks, schemaVars, dialog, archive, lastAutoUpdate, histVars, libVars>>

\* The clock advances between two UI events.
Tick(d) ==
    /\ nticks < MaxTicks
    /\ now' = now + d
    /\ nticks' = nticks + 1
    /\ UNCHANGED <<schemaVars, queueVars, appVars, lastAutoUpdate, histVars, libVars>>

\* ------------------------------------------------------------ specifications
Init ==
    /\ now \in StartTimes
    /\ nticks = 0
    /\ first_run = FALSE
    /\ last_update = 0
    /\ update_freq \in Frequencies
    /\ last_notification_update = 0
    /\ activities = <<>>
    /\ completions = {}
    /\ doneLog = <<>>
    /\ dialog = "none"
    /\ archive = "unset"
    /\ presented = <<>>
    /\ needs_refresh = ""
    /\ lastAutoUpdate = -1
    /\ lastNotificationAdd = -1
    /\ addedWhileRunning = FALSE
    /\ addedAfterFailure = FALSE
    /\ series = <<>>
    /\ movies = <<>>
    /\ tmdb_series = <<>>
    /\ tmdb_movies = <<>>
    /\ lastRun = [lists |-> NoLists, sent |-> <<>>]
    /\ notified = <<>>
    /\ nruns = 0
    /\ nl = [pc |-> "start", rows |-> <<>>, lists |-> NoLists]
    /\ uc = [pc |-> "start", rows |-> <<>>]

\* The worker threads.
Worker ==
    \E i \in 1..MaxQueue :
        \/ StartWork(i)
        \/ \E outcome \in {"true", "false", "none", "raise"} : FinishWork(i, outcome)

\* The UI loop delivering completions.
Deliver ==
    \E c \in completions, visible \in {"movies", "series"} :
        DispatchCompletion("ui", c, visible)

\* The UI events that enqueue (the queue holds at most MaxQueue activities).
Enqueue ==
    \/ Len(activities) + 2 <= MaxQueue /\ on_map
    \/ \E response \in {"cancel", "export"} :
          /\ response = "cancel" \/ Len(activities) < MaxQueue
          /\ on_export_alert_dialog_choose(response)
    \/ \E response \in {"cancel", "import"} :
          /\ response = "cancel" \/ Len(activities) < MaxQueue
          /\ on_import_alert_dialog_choose(response)

\* The dialogs that lead to an export or an import, the user choosing among
\* the given files.
FileDialogs(files) ==
    \/ do_export
    \/ \E chosen \in files \cup {"cancelled"} : on_file_save_complete(chosen)
    \/ do_import
    \/ \E chosen \in files \cup {"cancelled"} : on_file_open_complete(chosen)

\* No step of the queue depends on which file was chosen: one file stands
\* for all of them.
Dialogs == FileDialogs({"a.zip"})

\* The activity queue: UI events, workers and completions. The clock stands
\* still (no step of the queue reads it), 30 days after the stored
\* last-update day, so that the one update check that matters enqueues the
\* notification-list update and, with frequency 'week', the content update.
InitQueue ==
    /\ Init
    /\ now = MonthFreqDays * DayTicks
    /\ update_freq \in {"week", "never"}

Next == Enqueue \/ Dialogs \/ Worker \/ Deliver

Spec == InitQueue /\ [][Next]_vars

\* The worker threads run, and the UI loop keeps dispatching.
FairSpec == Spec /\ WF_vars(Worker) /\ WF_vars(Deliver)

\* Export and import flows one after the other, the user choosing between
\* two files, with the workers and the UI loop.
EnqueueArchive ==
    \/ \E response \in {"cancel", "export"} :
          /\ response = "cancel" \/ Len(activities) < MaxQueue
          /\ on_export_alert_dialog_choose(response)
    \/ \E response \in {"cancel", "import"} :
          /\ response = "cancel" \/ Len(activities) < MaxQueue
          /\ on_import_alert_dialog_choose(response)

NextArchive == EnqueueArchive \/ FileDialogs(Files) \/ Worker \/ Deliver

SpecArchive == InitQueue /\ [][NextArchive]_vars

\* The update check: the main view is mapped again and again as time passes.
NextUpdate ==
    \/ \E d \in TickSteps : Tick(d)
    \/ Len(activities) + 2 <= MaxUpdateQueue /\ on_map

SpecUpdate == Init /\ [][NextUpdate]_vars

\* The check of the notification list: the main view is mapped again and
\* again, moments or about twelve hours apart.
NextNotify ==
    \/ \E d \in NotifySteps : Tick(d)
    \/ Len(activities) + 2 <= MaxUpdateQueue /\ on_map

SpecNotify == Init /\ [][NextNotify]_vars

\* The library on day 30: every series and movie is on the notification
\* list; a series may carry the soon_release flag of an earlier run; the
\* stored last air date is the one TMDB gives or an older one.
SeriesRows ==
    [id : SeriesIds, last_air_date : LastAirDays, in_production : {1},
     new_release : {FALSE}, soon_release : BOOLEAN, recent_change : {FALSE},
     activate_notification : {TRUE}]
MovieRows ==
    [id : MovieIds, release_date : ReleaseDays,
     new_release : {FALSE}, soon_release : {FALSE}, recent_change : {FALSE},
     activate_notification : {TRUE}]
TmdbSeries ==
    [last_air_date : LastAirDays, next_air_date : NextAirDays, in_production : {0, 1}]
TmdbMovies == [release_date : ReleaseDays]

InitLibrary ==
    /\ now = MonthFreqDays * DayTicks
    /\ nticks = 0
    /\ first_run = FALSE
    /\ last_update = 0
    /\ update_freq = "never"
    /\ last_notification_update = 0
    /\ activities = <<>>
    /\ completions = {}
    /\ doneLog = <<>>
    /\ dialog = "none"
    /\ archive = "unset"
    /\ presented = <<>>
    /\ needs_refresh = ""
    /\ lastAutoUpdate = -1
    /\ lastNotificationAdd = -1
    /\ addedWhileRunning = FALSE
    /\ addedAfterFailure = FALSE
    /\ series \in [SeriesIds -> SeriesRows]
    /\ \A i \in SeriesIds : series[i].id = i
    /\ movies \in [MovieIds -> MovieRows]
    /\ \A i \in MovieIds : movies[i].id = i
    /\ tmdb_series \in [SeriesIds -> TmdbSeries]
    /\ \A i \in SeriesIds : series[i].last_air_date <= tmdb_series[i].last_air_date
    /\ tmdb_movies \in [MovieIds -> TmdbMovies]
    /\ \A i \in MovieIds : movies[i].release_date = tmdb_movies[i].release_date
    /\ lastRun = [lists |-> NoLists, sent |-> <<>>]
    /\ notified = [m \in MovieIds |-> [new |-> 0, soon |-> 0]]
    /\ nruns = 0
    /\ nl = [pc |-> "start", rows |-> <<>>, lists |-> NoLists]
    /\ uc = [pc |-> "start", rows |-> <<>>]

\* The notification-list update runs again and again as the weeks pass.
NextLibrary ==
    \/ Tick(LibraryStep)
    \/ UpdateNotificationList

SpecLibrary == InitLibrary /\ [][NextLibrary]_vars

\* The works of the two activities that one call of _check_update_content
\* enqueues, each on its worker, interleaved store call by store call.
NotificationListWork == NlGetSeries \/ NlSerie \/ NlGetMovies \/ NlMovie \/ NlSend
UpdateContentWork == UcGetMovies \/ UcMovie \/ UcGetSeries \/ UcSerie \/ UcReturn

NextStore == NotificationListWork \/ UpdateContentWork

SpecStore == InitLibrary /\ [][NextStore]_vars

\* ================================================================ properties
\* How many times the completion handler of activity i has been invoked.
HandlerCalls(i) ==
    Cardinality({k \in 1..Len(doneLog) : doneLog[k].activity = i})

\* The results of activity i posted to a loop and not yet delivered.
Posted(i) == Cardinality({c \in completions : c.activity = i})

\* C1: the completion handler of every enqueued activity is invoked exactly
\* once: never twice, never before the work has ended, and once the work has
\* ended (succeeded or failed) the invocation has been made or is the one
\* result posted to the UI loop for it -- it is never lost.
C1_HandlerExactlyOnce ==
    \A i \in 1..Len(activities) :
        /\ activities[i].on_done # ""
        /\ HandlerCalls(i) <= 1
        /\ HandlerCalls(i) + Posted(i) = (IF activities[i].finished THEN 1 ELSE 0)

\* Two activities, one whose work failed and one whose work succeeded, each
\* with its handler invoked once.
C1_Witness ==
    \E i, j \in 1..Len(activities) :
        /\ activities[i].outcome = "raise" /\ HandlerCalls(i) = 1
        /\ activities[j].outcome = "true" /\ HandlerCalls(j) = 1

\* C2: under fair scheduling of the workers and of the UI loop, every
\* enqueued activity eventually reaches a terminal status, its work having
\* run to completion and its completion handler having ended it: again and
\* again all the activities enqueued so far are terminal.
C2_EventuallyTerminal ==
    []<>(\A i \in 1..Len(activities) :
            /\ IsTerminal(Status(activities[i]))
            /\ activities[i].finished
            /\ HandlerCalls(i) = 1)

\* An 'Automatic update' whose work raised has been ended as failed.
C2_Witness ==
    \E i \in 1..Len(activities) :
        /\ activities[i].task_function = "update_content"
        /\ activities[i].outcome = "raise"
        /\ Status(activities[i]) = "failed"

\* C3: the status of an activity only moves forward along pending -> running
\* -> terminal, a terminal status never changes, and the work of an activity
\* is executed at most once.
C3_StatusMonotonic ==
    [][\A i \in 1..Len(activities) :
          /\ Rank(Status(activities'[i])) >= Rank(Status(activities[i]))
          /\ IsTerminal(Status(activities[i]))
                => Status(activities'[i]) = Status(activities[i])
          /\ activities'[i].runs <= 1]_vars

\* An import that failed and an import that succeeded, both ended, each work
\* having run once.
C3_Witness ==
    \E i, j \in 1..Len(activities) :
        /\ activities[i].task_function = "import_content_to_db"
        /\ Status(activities[i]) = "failed" /\ activities[i].runs = 1
        /\ Status(activities[j]) = "succeeded" /\ activities[j].runs = 1

\* The result the work of activity a handed back, from what the environment
\* made of it: a provider answer is returned as it is, a raised error becomes
\* the failure result.
OwnResult(a) == IF a.outcome = "raise" THEN "error" ELSE a.outcome

WorkFailed(a) == a.outcome \in {"false", "raise"}

\* C4: when the work of an activity raises or returns failure, the error
\* stays at the activity boundary (the work counts as ended, with a failure
\* result and the error flag), the completion handler is still invoked, with
\* a failure result, and the queue stays usable: every other activity, also
\* one enqueued afterwards, is still run and completed (once a work has
\* failed, again and again all the activities enqueued so far are completed).
C4_FailureIsContained ==
    /\ [](\A i \in 1..Len(activities) :
            WorkFailed(activities[i]) =>
                /\ activities[i].finished
                /\ activities[i].has_error
                /\ IsFailure(activities[i].result)
                /\ HandlerCalls(i) + Posted(i) = 1
                /\ \A k \in 1..Len(doneLog) :
                      doneLog[k].activity = i => IsFailure(doneLog[k].result))
    /\ []<>((\E i \in 1..Len(activities) : WorkFailed(activities[i]))
                => \A j \in 1..Len(activities) :
                      /\ activities[j].finished
                      /\ activities[j].completed
                      /\ HandlerCalls(j) = 1)

\* An export failed and its handler received the failure; an activity
\* enqueued after that has been run and completed.
C4_Witness ==
    \E i, j \in 1..Len(activities) :
        /\ activities[i].task_function = "export_content_from_db"
        /\ activities[i].outcome = "false"
        /\ doneLog # <<>>
        /\ doneLog[1].activity = i /\ doneLog[1].result = "false"
        /\ i # j /\ Len(activities) = 2
        /\ addedAfterFailure
        /\ activities[j].completed /\ HandlerCalls(j) = 1

\* C5: N enqueued activities produce N completion invocations, each one made
\* on the handler registered with its activity, carrying that activity and
\* the result of that activity's own work, and no two for the same activity.
C5_NoCrossTalk ==
    /\ \A k \in 1..Len(doneLog) :
          LET e == doneLog[k]
              a == activities[e.activity]
          IN  /\ e.activity \in 1..Len(activities)
              /\ e.handler = a.on_done
              /\ e.title = a.title
              /\ e.result = OwnResult(a)
              /\ a.completed
    /\ \A k1, k2 \in 1..Len(doneLog) :
          k1 # k2 => doneLog[k1].activity # doneLog[k2].activity
    /\ (completions = {} /\ \A i \in 1..Len(activities) : activities[i].finished)
          => Len(doneLog) = Len(activities)

\* Two activities with different handlers and different results, each
\* delivered to its own handler.
C5_Witness ==
    /\ Len(doneLog) = 2
    /\ Len(activities) = 2
    /\ doneLog[1].handler = "on_import_done" /\ doneLog[1].result = "true"
    /\ doneLog[2].handler = "on_export_done" /\ doneLog[2].result = "false"
    /\ doneLog[1].activity = 2

\* The activities the queue holds keep their identity.
SameActivity(a, b) ==
    /\ a.title = b.title
    /\ a.task_function = b.task_function
    /\ a.on_done = b.on_done
    /\ a.origin = b.origin

C7_HandlerAfterWorkOnOrigin ==
    \A k \in 1..Len(doneLog) :
        /\ activities[doneLog[k].activity].finished
        /\ activities[doneLog[k].activity].result # "unset"
        /\ doneLog[k].context = activities[doneLog[k].activity].origin
        /\ doneLog[k].context = "ui"

\* Completions in the reverse of the enqueue order.
C7_Witness ==
    /\ Len(doneLog) = 2
    /\ doneLog[1].activity = 2
    /\ doneLog[2].activity = 1

\* The UI events: dialogs and enqueues.
UIEvent == Dialogs \/ Enqueue

\* C8: enqueue does not block the caller: when the enqueueing callback
\* returns, the work of the new activity has not finished (it has not even
\* started), and whatever work is running, the UI loop can take its next
\* step, a confirmed export or import included.
C8_EnqueueNeverBlocks ==
    /\ [][\A i \in (Len(activities) + 1)..Len(activities') :
             ~activities'[i].started /\ ~activities'[i].finished]_vars
    /\ [](ENABLED UIEvent)
    /\ []((dialog = "confirm_export" /\ Len(activities) < MaxQueue)
             => ENABLED on_export_alert_dialog_choose("export"))
    /\ []((dialog = "confirm_import" /\ Len(activities) < MaxQueue)
             => ENABLED on_import_alert_dialog_choose("import"))

\* The work of one activity is running, and the UI has since enqueued
\* another activity and is waiting in the next confirmation dialog.
C8_Witness ==
    /\ Len(activities) = 2
    /\ activities[1].started /\ ~activities[1].finished
    /\ addedWhileRunning
    /\ dialog = "confirm_import"

\* The 'Automatic update' activities a step adds to the queue.
NewAutomaticUpdates ==
    Cardinality({i \in (Len(activities) + 1)..Len(activities') :
                    activities'[i].title = "Automatic update"})

\* A call of _check_update_content (the main view is mapped, not in the
\* first run).
CheckUpdateCall == ~first_run /\ on_map

\* C9: a call of _check_update_content with frequency 'day', 'week' or
\* 'month' enqueues exactly one 'Automatic update' when midnight of the stored
\* last-update day plus 1, 7 or 30 days is strictly earlier than now, and none
\* otherwise; with frequency 'never' it enqueues none and leaves the stored
\* last-update value as it is.
C9_UpdateEnqueuedWhenDue ==
    [][CheckUpdateCall =>
          /\ update_freq = "day" =>
                NewAutomaticUpdates = (IF last_update * DayTicks + 1 * DayTicks < now
                                       THEN 1 ELSE 0)
          /\ update_freq = "week" =>
                NewAutomaticUpdates = (IF last_update * DayTicks + 7 * DayTicks < now
                                       THEN 1 ELSE 0)
          /\ update_freq = "month" =>
                NewAutomaticUpdates = (IF last_update * DayTicks + 30 * DayTicks < now
                                       THEN 1 ELSE 0)
          /\ update_freq = "never" =>
                NewAutomaticUpdates = 0 /\ last_update' = last_update]_vars

\* With frequency 'month', the call made one tick after the 30 days have
\* passed has enqueued the one 'Automatic update' of the queue.
C9_Witness ==
    /\ update_freq = "month"
    /\ now = 30 * DayTicks + 1
    /\ lastAutoUpdate = now
    /\ Cardinality({i \in 1..Len(activities) :
                       activities[i].title = "Automatic update"}) = 1

\* C10: with frequency 'week' (or 'month'), a call of _check_update_content
\* made more than 7 (or 30) days after the last 'Automatic update' was
\* enqueued enqueues an 'Automatic update'.
C10_DueUpdateIsTriggered ==
    [][(/\ CheckUpdateCall
        /\ lastAutoUpdate >= 0
        /\ \/ update_freq = "week" /\ now > lastAutoUpdate + 7 * DayTicks
           \/ update_freq = "month" /\ now > lastAutoUpdate + 30 * DayTicks)
          => NewAutomaticUpdates >= 1]_vars

\* The 'Automatic update of notification list' activities a step adds.
NewNotificationLists ==
    Cardinality({i \in (Len(activities) + 1)..Len(activities') :
                    activities'[i].title = "Automatic update of notification list"})

\* C11: a call of _check_update_content enqueues the notification-list update
\* exactly when the stored last-notification-update time plus 12 hours is
\* earlier than now, whatever the update frequency, and then stores the
\* current time, cut to the minute; hence two such activities are enqueued
\* more than 12 hours less one minute apart.
C11_NotificationRateLimited ==
    [][CheckUpdateCall =>
          LET due == fromisoformat_minute(last_notification_update)
                         + 12 * HourTicks < now
          IN  /\ NewNotificationLists = (IF due THEN 1 ELSE 0)
              /\ last_notification_update' =
                     (IF due THEN now \div MinuteTicks ELSE last_notification_update)
              /\ (due /\ lastNotificationAdd # -1)
                     => now - lastNotificationAdd > 12 * HourTicks - MinuteTicks]_vars

\* Two notification-list updates have been enqueued, the second one at a time
\* that the stored minute cuts short.
C11_Witness ==
    /\ Cardinality({i \in 1..Len(activities) :
                       activities[i].task_function = "update_notification_list"}) = 2
    /\ lastNotificationAdd > last_notification_update * MinuteTicks

\* C11 as stated: no two notification-list updates are enqueued less than 12
\* hours apart.
C11_TwelveHoursApart ==
    [][(CheckUpdateCall /\ NewNotificationLists > 0 /\ lastNotificationAdd # -1)
          => now - lastNotificationAdd >= 12 * HourTicks]_vars

\* A step that is a run of _update_notification_list.
NotificationRun == nruns' = nruns + 1

\* The series the run that starts in this state works on.
OnNotificationList(i) == i \in DOMAIN series /\ series[i].activate_notification

\* C12: when the last air date fetched from TMDB for a series is newer than
\* the stored one, after the flag updates of that series' loop iteration
\* new_release is true, and soon_release is true exactly when TMDB gives a
\* next air date less than 7 days ahead (the soon check of the same iteration
\* sets the flag again); otherwise soon_release is false.
C12_NewReleaseFlags ==
    [][NotificationRun =>
          \A i \in SeriesIds :
              (OnNotificationList(i)
               /\ series[i].last_air_date < tmdb_series[i].last_air_date)
              => /\ series'[i].new_release
                 /\ series'[i].soon_release
                        = (/\ tmdb_series[i].next_air_date # NoDate
                           /\ now + 7 * DayTicks
                                  > tmdb_series[i].next_air_date * DayTicks)]_vars

\* The first run has found a new release of a series that has no episode
\* within a week: new_release is set, soon_release is not.
C12_Witness ==
    \E i \in SeriesIds :
        /\ nruns = 1
        /\ lastRun.lists.new_release_series = <<i>>
        /\ lastRun.lists.soon_release_series = <<>>
        /\ series[i].new_release
        /\ ~series[i].soon_release
        /\ nticks = 0

\* C12 as stated: after the flag updates of the iteration of a series with a
\* newer last air date, new_release is true and soon_release is false.
C12_NewReleaseNotSoon ==
    [][NotificationRun =>
          \A i \in SeriesIds :
              (OnNotificationList(i)
               /\ series[i].last_air_date < tmdb_series[i].last_air_date)
              => (series'[i].new_release /\ ~series'[i].soon_release)]_vars

\* C13: in any run of _update_notification_list a series is put on the
\* soon-release notification list only when its next air date is more than
\* 20 days after its most recent aired episode (the last air date TMDB
\* gives) and less than 7 days away; a weekly or bi-weekly series never is.
C13_NoSoonEntryForShortGap ==
    [][NotificationRun =>
          \A k \in 1..Len(lastRun'.lists.soon_release_series) :
              LET i == lastRun'.lists.soon_release_series[k]
              IN  /\ tmdb_series[i].next_air_date # NoDate
                  /\ tmdb_series[i].next_air_date - tmdb_series[i].last_air_date > 20
                  /\ now + 7 * DayTicks > tmdb_series[i].next_air_date * DayTicks]_vars

\* C14: over any sequence of runs of _update_notification_list a movie is put
\* on the new-release list only in a run where its release date is in the
\* past and the stored new_release flag was not set, and on the soon-release
\* list only in a run where its release date is not in the past, less than 14
\* days ahead, and the stored soon_release flag was not set; the run sets the
\* flag, and a movie is notified at most once for its release and at most
\* once for its coming release.
C14_MovieNotifiedOnce ==
    /\ [](\A m \in DOMAIN notified : notified[m].new <= 1 /\ notified[m].soon <= 1)
    /\ [][NotificationRun =>
             \A m \in MovieIds :
                 LET release == tmdb_movies[m].release_date * DayTicks
                 IN  /\ CountIn(lastRun'.lists.new_release_movies, m) > 0
                        => /\ release < now
                           /\ ~movies[m].new_release
                           /\ movies'[m].new_release
                     /\ CountIn(lastRun'.lists.soon_release_movies, m) > 0
                        => /\ ~(release < now)
                           /\ release < now + 14 * DayTicks
                           /\ ~movies[m].soon_release
                           /\ movies'[m].soon_release]_vars

\* A movie has been notified as coming soon in one run and as released in a
\* later one, and the run after that has put it on no list.
C14_Witness ==
    \E m \in MovieIds :
        /\ notified[m].soon = 1
        /\ notified[m].new = 1
        /\ nruns = 3
        /\ lastRun.lists.new_release_movies = <<>>
        /\ lastRun.lists.soon_release_movies = <<>>
        /\ movies[m].new_release

\* The result lists of the last run that are not empty.
NonEmptyLists ==
    {c \in {"new_release_series", "soon_release_series", "out_of_production_series",
            "new_release_movies", "soon_release_movies"} : lastRun.lists[c] # <<>>}

\* The titles of the notifications of a category (for one entry, for several).
TitlesOf(c) ==
    CASE c = "new_release_series" ->
             {"New release for {title}",
              "New release for {num} TV series on your watchlist"}
      [] c = "soon_release_series" ->
             {"{title} will have a release soon",
              "{num} TV Series on your watchlist will have a new episode soon"}
      [] c = "out_of_production_series" ->
             {"{title} has gone out of production",
              "{num} TV Series of your watchlist have gone out of production"}
      [] c = "new_release_movies" ->
             {"{title} has had its release!",
              "{num} movies on your watchlist have had their releases."}
      [] OTHER ->
             {"{title} will have its release soon!",
              "{num} movies on your watchlist will have their releases soon"}

\* C15: a run of _update_notification_list sends at most one notification:
\* none when the five result lists are empty, one of the category when exactly
\* one list is not empty, the summary when two or more are not empty; the
\* title and the body of a notification that is sent have been assigned.
C15_OneNotificationPerRun ==
    /\ Len(lastRun.sent) <= 1
    /\ (NonEmptyLists = {}) => lastRun.sent = <<>>
    /\ \A c \in NonEmptyLists :
          NonEmptyLists = {c}
              => Len(lastRun.sent) = 1 /\ lastRun.sent[1].title \in TitlesOf(c)
    /\ Cardinality(NonEmptyLists) >= 2
          => /\ Len(lastRun.sent) = 1
             /\ lastRun.sent[1].title = "{num} items of your watchlist have an update"
    /\ \A k \in 1..Len(lastRun.sent) :
          lastRun.sent[k].title # "unassigned" /\ lastRun.sent[k].body # "unassigned"

\* A run that found only a series gone out of production has sent the
\* notification of that category.
C15_Witness ==
    /\ nruns >= 1
    /\ NonEmptyLists = {"out_of_production_series"}
    /\ Len(lastRun.sent) = 1
    /\ lastRun.sent[1].title = "{title} has gone out of production"

\* The entries of a list, as a set.
Entries(list) == {list[k] : k \in 1..Len(list)}

\* C16: the number in the title of the summary notification equals the number
\* of distinct watchlist items (series and movies) with an update in the run.
C16_SummaryCountsItems ==
    \A k \in 1..Len(lastRun.sent) :
        lastRun.sent[k].title = "{num} items of your watchlist have an update"
            => lastRun.sent[k].num =
                   Cardinality(Entries(lastRun.lists.new_release_series)
                               \cup Entries(lastRun.lists.soon_release_series)
                               \cup Entries(lastRun.lists.out_of_production_series))
                   + Cardinality(Entries(lastRun.lists.new_release_movies)
                                 \cup Entries(lastRun.lists.soon_release_movies))

\* C17: when the notification-list update and the automatic content update
\* run concurrently, the flags that _update_notification_list has set for a
\* series are still set once both works have finished: every series on the
\* new-release list has new_release and recent_change, every series on the
\* soon-release list has soon_release and recent_change, every series on the
\* out-of-production list has recent_change and is off the notification list.
C17_NoFlagLost ==
    (nl.pc = "done" /\ uc.pc = "done")
        => /\ \A i \in Entries(nl.lists.new_release_series) :
                 series[i].new_release /\ series[i].recent_change
           /\ \A i \in Entries(nl.lists.soon_release_series) :
                 series[i].soon_release /\ series[i].recent_change
           /\ \A i \in Entries(nl.lists.out_of_production_series) :
                 series[i].recent_change /\ ~series[i].activate_notification

\* The worker of activity i enters its task function, an export or an import:
\* the first statement reads self.archive (main.py lines 246 and 383).
ReadsArchive(i) ==
    /\ i \in 1..Len(activities)
    /\ activities[i].task_function \in {"export_content_from_db", "import_content_to_db"}
    /\ ~activities[i].started
    /\ activities'[i].started

\* C18: the path an export or import work reads from self.archive is the
\* file chosen in the dialog flow that enqueued the activity, whatever file
\* dialogs were completed in between.
C18_WorkReadsOwnArchive ==
    [][\A i \in 1..MaxQueue : ReadsArchive(i) => archive = activities[i].chosen]_vars

\* What the completion handler of an export or an import has to show for the
\* provider's answer: one dialog, after the window refresh when an import
\* succeeded.
Shown(a) ==
    IF a.task_function = "export_content_from_db"
    THEN IF a.outcome = "true" THEN <<"Export Completed">> ELSE <<"Export failed">>
    ELSE IF a.outcome = "true" THEN <<"win.refresh", "Import Completed">>
         ELSE <<"Import failed">>

\* C19: for every export and import activity, the step that ends the work
\* leaves the error flag set exactly when the provider operation returned
\* failure (and the result is what the provider returned), and the step that
\* invokes the completion handler ends the activity and presents exactly one
\* dialog, 'Completed' if and only if the work returned success and 'failed'
\* otherwise, with the window refresh only for an import that succeeded.
C19_OutcomeShown ==
    [][\A i \in 1..Len(activities) :
          activities[i].task_function \in {"export_content_from_db", "import_content_to_db"}
          => /\ (~activities[i].finished /\ activities'[i].finished
                    /\ activities'[i].outcome # "raise")
                => /\ activities'[i].has_error = (activities'[i].outcome = "false")
                   /\ activities'[i].result = activities'[i].outcome
             /\ (HandlerCalls(i)' = HandlerCalls(i) + 1)
                => /\ activities'[i].completed
                   /\ presented' = presented \o Shown(activities[i])]_vars

\* An import that succeeded was followed by the refresh and its 'Completed'
\* dialog, then an export whose provider call returned failure carries the
\* error flag and got the 'failed' dialog.
C19_Witness ==
    \E i, j \in 1..Len(activities) :
        /\ activities[i].task_function = "import_content_to_db"
        /\ activities[i].outcome = "true" /\ ~activities[i].has_error
        /\ activities[j].task_function = "export_content_from_db"
        /\ activities[j].outcome = "false" /\ activities[j].has_error
        /\ activities[i].completed /\ activities[j].completed
        /\ presented = <<"win.refresh", "Import Completed", "Export failed">>

====
